---- MODULE Spec2Model ----
(***************************************************************************)
(* jellyname: interactive renaming of ripped movie and TV files.           *)
(*                                                                         *)
(* The model follows the source function by function:                      *)
(*   common.py    fix_title, rename_file                                   *)
(*   movies.py    find_match, process_movie_file                           *)
(*   shows.py     identify_tv_show, identify_tv_season, select_episode,    *)
(*                get_supported_files, process_tv_dir                      *)
(*   __main__.py  main (the run loop over the movie files, the delete      *)
(*                confirmation and the end-of-run folder cleanup)          *)
(* The operator (prompt_toolkit dialogs) and the metadata provider (tmdb)  *)
(* are the environment: every answer and every result set is a             *)
(* nondeterministic input of the action that asks for it.                  *)
(*                                                                         *)
(* Strings that the code inspects (titles) are sequences of one-character  *)
(* strings.  A destination path is the tuple of the values the template    *)
(* is rendered from; the default templates put show and season (TV) or     *)
(* the movie (movies) in the folder part and the rest in the file name.    *)
(***************************************************************************)
EXTENDS Integers, Sequences, FiniteSets, TLC

\* ---------------------------------------------------------------- bounds
MaxFiles == 3
MaxRuns == 2
MaxQueries == 3
MaxMovies == 2
MaxTokens == 3

\* ------------------------------------------------------- Python's values
\* None for the integer-valued results (a show id, a movie id, a season).
None == 0

\* A title is None or a str: MKVFile.title.
NoTitle == [present |-> FALSE, text |-> <<>>]

Str(s) == [present |-> TRUE, text |-> s]

IsNone(t) == ~t.present

\* Python truthiness of `title`: None and "" are falsy.
Truthy(t) == t.present /\ Len(t.text) > 0

\* ------------------------------------------------------------- fix_title
LowerChar(c) ==
    CASE c = "U" -> "u"
      [] c = "T" -> "t"
      [] c = "B" -> "b"
      [] c = "H" -> "h"
      [] c = "E" -> "e"
      [] OTHER -> c

Lower(s) == [i \in 1..Len(s) |-> LowerChar(s[i])]

EndsWith(s, suf) ==
    /\ Len(s) >= Len(suf)
    /\ SubSeq(s, Len(s) - Len(suf) + 1, Len(s)) = suf

StartsWith(s, pre) ==
    /\ Len(s) >= Len(pre)
    /\ SubSeq(s, 1, Len(pre)) = pre

\* str.replace(pat, ""): the non-overlapping occurrences, left to right.
RECURSIVE Remove(_, _)
Remove(s, pat) ==
    IF Len(s) < Len(pat) THEN s
    ELSE IF StartsWith(s, pat) THEN Remove(SubSeq(s, Len(pat) + 1, Len(s)), pat)
    ELSE <<Head(s)>> \o Remove(Tail(s), pat)

CommaThe == <<",", " ", "t", "h", "e">>
ThePrefix == <<"t", "h", "e", " ">>
BluRay == <<"b", "l", "u", "-", "r", "a", "y">>
DashBluRay == <<"-", " ">> \o BluRay

fix_title(s) ==
    LET low == Lower(s)
        the == IF EndsWith(low, CommaThe)
               THEN ThePrefix \o SubSeq(low, 1, Len(low) - 5)
               ELSE low
    IN  Remove(Remove(the, DashBluRay), BluRay)

\* ------------------------------------------------------------ environment
Exts == {"mkv", "mp4"}

\* The shows the provider knows (tmdb ids), each with seasons 1 and 2.
Shows == {77, 78}

Seasons(show) == {1, 2}

\* The movies the provider knows (tmdb ids) and their original_language tag;
\* "" stands for a result without the "original_language" key.
Movies == {1049, 2, 3}

OriginalLanguage(m) ==
    CASE m = 1049 -> "en"
      [] m = 2 -> "fr"
      [] OTHER -> ""

\* filters.lang; "" stands for no language filter.
Langs == {"", "en"}

DefaultFiltersLang == ""

\* Embedded titles of the files: none, one fix_title leaves non-empty and one
\* it empties.
UpThe == <<"U", "p", ",", " ", "T", "h", "e">>

RawTitles == {NoTitle, Str(UpThe), Str(<<"B", "l", "u", "-", "r", "a", "y">>)}

\* What the operator types at the tag prompt instead of the default.
TypedTags == {"Extended"}

VARIABLES
    \* ---- the command line
    mode,          \* "movies" | "shows": the flow this invocation runs
    dry_run,       \* --dry-run
    start_episode, \* -1 mixed, 0 unset, >= 1 explicit
    filters,       \* filters.lang the movie flow was started with
    history,       \* the model records a resolution's events in `trace`
    \* ---- the filesystem
    outRoot,       \* the output directory exists
    outDirs,       \* the folders of the output directory
    outFiles,      \* the files of the output directory (destination paths)
    srcHere,       \* the input files (by position in path order) still in place
    \* ---- the run loops
    pc,            \* the program's position
    runs,          \* process_tv_dir resp. main invocations so far
    nFiles,        \* len(episodes) resp. len(paths)
    idx,           \* the loop's position in episodes resp. paths
    \* ---- the current file
    ext,           \* filename.suffix[1:]
    dst,           \* the planned destination
    approved,      \* the three-way confirmation: "yes" | "skip" | "delete"
    sure,          \* the yes/no delete dialog: "yes" | "no"
    \* ---- process_tv_dir
    tv_show,
    tv_season,
    episode_num,
    \* ---- find_match / identify_tv_show (one resolution)
    title,         \* movie.title resp. title
    manual,
    filt,          \* filters.lang of the current call
    typed,         \* search_term was typed at the input dialog
    results,       \* the values of the radiolist dialog (without NONEABOVE)
    \* ---- process_movie_file
    match,
    default_tag,
    tag,
    \* ---- what happened (history, read by the properties only)
    fsOp,          \* the filesystem calls the latest step made
    nConfirmed,    \* files of this run that reached the confirmation
    counted,       \* how often this run counted the season folder
    seasonCancelled, \* a season dialog of this run was cancelled
    filt0,         \* the language filter the resolution was started with
    trace          \* the current file's resolution events, in order

cfgVars == <<mode, dry_run, start_episode, filters, history>>

fsVars == <<outRoot, outDirs, outFiles, srcHere>>

loopVars == <<runs, nFiles, idx>>

fileVars == <<ext, dst, approved, sure>>

tvVars == <<tv_show, tv_season, episode_num>>

resVars == <<title, manual, filt, typed, results>>

movieVars == <<match, default_tag, tag>>

runHist == <<nConfirmed, counted, seasonCancelled>>

resHist == <<filt0, trace>>

vars == <<cfgVars, fsVars, pc, loopVars, fileVars, tvVars, resVars, movieVars,
          fsOp, runHist, resHist>>

\* ------------------------------------------------------------------ paths
NoPath == [dir |-> <<>>, name |-> <<>>]

\* out_format.format(name, first_year, tmdb_id, season_num, episode_num, ext)
TvPath(show, season, num, e) == [dir |-> <<show, season>>, name |-> <<num, e>>]

\* A tag is "" or the text of the tag prompt; "CD<n>" keeps its number.
NoTag == [text |-> "", n |-> 0]

CD(n) == [text |-> "CD", n |-> n]

Typed(t) == [text |-> t, n |-> 0]

\* out_format.format(title, year, tag, tmdb_id, ext)
MoviePath(m, t, e) == [dir |-> <<m>>, name |-> <<t, e>>]

FilesIn(d) == {p \in outFiles : p.dir = d}

\* get_supported_files(directory): glob("*.mkv") and glob("*.mp4").
get_supported_files(d) == {p \in FilesIn(d) : p.name[2] \in Exts}

\* maybe_dst.parent.glob(f"*{filename.suffix}")
GlobSuffix(d, e) == {p \in FilesIn(d) : p.name[2] = e}

\* ------------------------------------------------------------------- Init
TvTitles == {NoTitle, Str(UpThe)}

StartEpisodes == {-1, 0, 1}

\* No file is being processed.
NoFile ==
    /\ ext = "mkv" /\ dst = NoPath /\ approved = "" /\ sure = ""
    /\ match = None /\ default_tag = NoTag /\ tag = NoTag

NoResolution ==
    /\ title = NoTitle /\ manual = FALSE /\ filt = DefaultFiltersLang
    /\ typed = FALSE /\ results = {}
    /\ filt0 = DefaultFiltersLang /\ trace = <<>>

InitShows ==
    /\ mode = "shows"
    /\ start_episode \in StartEpisodes
    /\ filters = DefaultFiltersLang
    /\ outRoot = TRUE
    /\ outDirs \in {{}, {<<77, 1>>}}
    /\ nFiles \in 0..MaxFiles
    /\ pc = "tv_call"

InitMovies ==
    /\ mode = "movies"
    /\ start_episode = 0
    /\ filters \in Langs
    /\ outRoot \in BOOLEAN
    /\ outDirs \in {{}, {<<1049>>}}
    /\ outDirs # {} => outRoot
    /\ nFiles \in 0..MaxMovies
    /\ pc = "m_loop"

InitLocals ==
    /\ dry_run \in BOOLEAN
    /\ outFiles = {}
    /\ srcHere = 1..nFiles
    /\ runs = 1
    /\ idx = 1
    /\ tv_show = None /\ tv_season = None /\ episode_num = 0
    /\ fsOp = {}
    /\ nConfirmed = 0 /\ counted = 0 /\ seasonCancelled = FALSE
    /\ NoFile
    /\ NoResolution

InitRun == InitLocals /\ history = TRUE

Init == (InitShows \/ InitMovies) /\ InitRun

\* The locals of the previous file are gone.
ForgetFile ==
    /\ dst' = NoPath /\ approved' = "" /\ sure' = ""
    /\ match' = None /\ default_tag' = NoTag /\ tag' = NoTag

ForgetResolution ==
    /\ title' = NoTitle /\ manual' = FALSE /\ filt' = DefaultFiltersLang
    /\ typed' = FALSE /\ results' = {}
    /\ filt0' = DefaultFiltersLang /\ trace' = <<>>

\* A step that makes no filesystem call.
NoFs == fsOp' = {} /\ UNCHANGED fsVars

\* ------------------------------------------------------------ rename_file
\* common.py rename_file(op, dry_run); __main__.py's own rename_file is this
\* one with dry_run = False.  shutil.move replaces an existing destination.
rename_file(op_approved, i, d, dry) ==
    IF op_approved /\ ~dry
    THEN /\ outRoot' = TRUE
         /\ outDirs' = outDirs \cup {d.dir}
         /\ outFiles' = outFiles \cup {d}
         /\ srcHere' = srcHere \ {i}
         /\ fsOp' = {"move"}
                \cup (IF outRoot /\ d.dir \in outDirs THEN {} ELSE {"mkdir"})
    ELSE NoFs

\* ------------------------------------- find_match and identify_tv_show
\* The trace with the event `ev` recorded.
Log(ev) == IF history THEN Append(trace, ev) ELSE trace

Events(kind) == {i \in 1..Len(trace) : trace[i] = kind}

NumQueries == Cardinality(Events("query")) + Cardinality(Events("empty"))

\* Faulty variant: a forced manual mode does not bring up the input dialog.
Entry_TitleOnly(t, man) == IF IsNone(t) THEN "r_prompt" ELSE "r_query"

\* movies.py 31-32, shows.py 58-59: the input dialog is shown or skipped.
Entry(t, man) == IF IsNone(t) \/ man THEN "r_prompt" ELSE "r_query"

\* find_match(file, filename, filters=filters) resp.
\* identify_tv_show(filename, file.title, False) is called.
Resolve(t, f) ==
    /\ title' = t /\ manual' = FALSE /\ filt' = f
    /\ typed' = FALSE /\ results' = {}
    /\ filt0' = f /\ trace' = <<>>
    /\ pc' = Entry(t, FALSE)

\* The filters of the recursive call find_match(movie, filename, True):
\* the parameter's default.
RetryFilters(f) == DefaultFiltersLang

\* The recursive call find_match(movie, filename, True) resp.
\* identify_tv_show(filename, title, True).
Retry(ev) ==
    /\ manual' = TRUE /\ filt' = RetryFilters(filt)
    /\ typed' = FALSE /\ results' = {}
    /\ trace' = Log(ev)
    /\ pc' = Entry(title, TRUE)
    /\ UNCHANGED <<title, filt0, tv_show, match, idx>>

\* Faulty variant: the season is asked for with every file.
AfterShow_AlwaysAsk(show, season) ==
    IF show = None THEN "tv_loop" ELSE "tv_season_prompt"

\* shows.py 202-206 for a show just identified (or not).
AfterShow(show, season) ==
    IF show = None THEN "tv_loop"
    ELSE IF season = None \/ start_episode = -1 THEN "tv_season_prompt"
    ELSE "tv_line208"

\* Faulty variant: whatever the dialog returned, the resolution goes on in
\* manual mode.
Return_Reprompt(x) == Retry("none_above")

\* The resolution returns x to process_tv_dir (shows.py 200-206) resp. to
\* process_movie_file (movies.py 107); its locals are gone.
Return(x) ==
    /\ ForgetResolution
    /\ IF mode = "shows"
       THEN /\ tv_show' = x
            /\ idx' = IF x = None THEN idx + 1 ELSE idx
            /\ pc' = AfterShow(x, tv_season)
            /\ UNCHANGED match
       ELSE /\ match' = x
            /\ pc' = "m_line108"
            /\ UNCHANGED <<tv_show, idx>>

resFrame == <<cfgVars, runs, nFiles, fileVars, tv_season, episode_num,
              default_tag, tag, runHist>>

\* input_dialog(...).run() returned None: "Skip".
RPromptCancel ==
    /\ pc = "r_prompt"
    /\ Return(None)
    /\ NoFs
    /\ UNCHANGED resFrame

\* input_dialog(...).run() returned the text the operator entered.
RPromptEnter ==
    /\ pc = "r_prompt"
    /\ NumQueries < MaxQueries
    /\ typed' = TRUE
    /\ trace' = Log("prompt")
    /\ pc' = "r_query"
    /\ NoFs
    /\ UNCHANGED <<title, manual, filt, results, filt0, tv_show, match, idx>>
    /\ UNCHANGED resFrame

Known == IF mode = "shows" THEN Shows ELSE Movies

\* Faulty variant: an empty result is always retried.
GiveUp_Never(t, man) == FALSE

\* movies.py 56-58, shows.py 81-83: `if title and manual: return None`.
GiveUp(t, man) == Truthy(t) /\ man

\* search.results is empty.
RQueryEmpty ==
    /\ pc = "r_query"
    /\ IF GiveUp(title, manual)
       THEN Return(None)
       ELSE Retry("empty")
    /\ NoFs
    /\ UNCHANGED resFrame

\* movies.py 63-78: the candidates kept for the dialog.
Kept(res, lang) ==
    {m \in res : ~(lang # "" /\ OriginalLanguage(m) # ""
                   /\ OriginalLanguage(m) # lang)}

\* shows.py 87-113 keeps every result.
Candidates(res) == IF mode = "shows" THEN res ELSE Kept(res, filt)

\* search.results is not empty: the radiolist dialog is shown.
RQueryResults ==
    /\ pc = "r_query"
    /\ \E res \in SUBSET Known \ {{}} :
        results' = Candidates(res)
    /\ trace' = Log("query")
    /\ pc' = "r_choose"
    /\ NoFs
    /\ UNCHANGED <<title, manual, filt, typed, filt0, tv_show, match, idx>>
    /\ UNCHANGED resFrame

\* radiolist_dialog(...).run() returned a candidate.
RChoosePick ==
    /\ pc = "r_choose"
    /\ \E x \in results : Return(x)
    /\ NoFs
    /\ UNCHANGED resFrame

\* ... returned NONEABOVE.
RChooseNone ==
    /\ pc = "r_choose"
    /\ Retry("none_above")
    /\ NoFs
    /\ UNCHANGED resFrame

\* ... returned None.
RChooseCancel ==
    /\ pc = "r_choose"
    /\ Return(None)
    /\ NoFs
    /\ UNCHANGED resFrame

ResolveNext ==
    \/ RPromptCancel
    \/ RPromptEnter
    \/ RQueryEmpty
    \/ RQueryResults
    \/ RChoosePick
    \/ RChooseNone
    \/ RChooseCancel

\* --------------------------------------------------------- process_tv_dir
\* shows.py 188-194: the locals of a call.  The files of one input directory
\* share their suffix (one rip, one container format).
TvCall ==
    /\ pc = "tv_call"
    /\ tv_show' = None /\ tv_season' = None
    /\ episode_num' = start_episode
    /\ idx' = 1
    /\ pc' = "tv_loop"
    /\ NoFs
    /\ ext' \in Exts
    /\ UNCHANGED <<cfgVars, runs, nFiles, dst, approved, sure, resVars,
                   movieVars, runHist, resHist>>

\* shows.py 195: the loop is over.
TvLoopEnd ==
    /\ pc = "tv_loop"
    /\ idx > nFiles
    /\ pc' = "tv_cleanup"
    /\ ForgetFile /\ ForgetResolution /\ ext' = "mkv"
    /\ NoFs
    /\ UNCHANGED <<cfgVars, loopVars, tvVars, runHist>>

\* shows.py 195-206: the next file; the show is identified if it is not yet.
TvNextFile ==
    /\ pc = "tv_loop"
    /\ idx <= nFiles
    /\ ForgetFile
    /\ IF idx \notin srcHere
       THEN /\ idx' = idx + 1
            /\ ext' = ext
            /\ ForgetResolution
            /\ UNCHANGED pc
       ELSE /\ idx' = idx
            /\ ext' = ext
            /\ IF tv_show = None
               THEN \E t \in TvTitles : Resolve(t, DefaultFiltersLang)
               ELSE /\ pc' = AfterShow(tv_show, tv_season)
                    /\ ForgetResolution
    /\ NoFs
    /\ UNCHANGED <<cfgVars, runs, nFiles, tvVars, runHist>>

\* Faulty variant: a cancelled season dialog returns from process_tv_dir.
AfterSeason_Abort(season) ==
    IF season = None THEN "tv_return" ELSE "tv_line208"

\* shows.py 204-208 after identify_tv_season returned `season`.
AfterSeason(season) == IF season = None THEN "tv_loop" ELSE "tv_line208"

\* identify_tv_season: the radiolist over tv_show.seasons; None for a
\* cancelled dialog and for "None of the above".  shows.py 203-206.
TvSeasonPrompt ==
    /\ pc = "tv_season_prompt"
    /\ \E s \in Seasons(tv_show) \cup {None} :
        /\ tv_season' = s
        /\ seasonCancelled' = (seasonCancelled \/ s = None)
        /\ pc' = AfterSeason(s)
        /\ idx' = IF pc' = "tv_loop" THEN idx + 1 ELSE idx
    /\ NoFs
    /\ UNCHANGED <<cfgVars, runs, nFiles, fileVars, tv_show, episode_num,
                   resVars, movieVars, nConfirmed, counted, resHist>>

\* Faulty variant: a cancelled pick skips the file only.
AfterPick_Continue(pick) == IF pick = None THEN "tv_loop" ELSE "tv_crash"

\* shows.py 210-237 after select_episode returned `pick`.  None returns from
\* process_tv_dir.  Otherwise episode_num is the TVEpisode object itself,
\* not its number, and the format specification ":02" of the dialog's title
\* (line 237; the template's "{episode_num:02}" before it, line 232) raises
\* TypeError for it.
AfterPick(pick) == IF pick = None THEN "tv_return" ELSE "tv_crash"

\* The episode numbers select_episode offers (a TVEpisode stands for its
\* episode_number).
Episodes(show, season) == {1, 2}

\* shows.py 208-211 and select_episode: None for a cancelled dialog and for
\* "None of the above".
TvSelectEpisode ==
    /\ pc = "tv_line208"
    /\ start_episode = -1
    /\ \E pick \in Episodes(tv_show, tv_season) \cup {None} :
        /\ episode_num' = pick
        /\ pc' = AfterPick(pick)
    /\ NoFs
    /\ UNCHANGED <<cfgVars, loopVars, fileVars, tv_show, tv_season, resVars,
                   movieVars, runHist, resHist>>

\* Faulty variant: the count itself is taken as the first number.
FirstEpisode_NoPlusOne(show, season, e) ==
    Cardinality(get_supported_files(TvPath(show, season, 0, e).dir))

\* shows.py 215-225: the first number of a run with start unset.
FirstEpisode(show, season, e) ==
    Cardinality(get_supported_files(TvPath(show, season, 0, e).dir)) + 1

\* shows.py 213-234: the number and the destination of the current file.
TvPlan ==
    /\ pc = "tv_line208"
    /\ start_episode # -1
    /\ LET num == IF episode_num = 0
                  THEN FirstEpisode(tv_show, tv_season, ext)
                  ELSE episode_num
       IN  /\ episode_num' = num
           /\ counted' = IF episode_num = 0 THEN counted + 1 ELSE counted
           /\ dst' = TvPath(tv_show, tv_season, num, ext)
    /\ pc' = "tv_confirm"
    /\ NoFs
    /\ UNCHANGED <<cfgVars, loopVars, ext, approved, sure, tv_show, tv_season,
                   resVars, movieVars, nConfirmed, seasonCancelled, resHist>>

\* Faulty variant: the counter moves on only for an approved file.
NextEpisode_OnlyApproved(num, answer) ==
    IF answer = "yes" THEN num + 1 ELSE num

\* shows.py 242: the counter after a decision.
NextEpisode(num, answer) == num + 1

\* shows.py 236-249: the three-way confirmation and what follows it.
TvConfirm ==
    /\ pc = "tv_confirm"
    /\ \E answer \in {"yes", "skip", "delete"} :
        /\ approved' = answer
        /\ episode_num' = NextEpisode(episode_num, answer)
        /\ rename_file(answer = "yes", idx, dst, dry_run)
    /\ nConfirmed' = nConfirmed + 1
    /\ idx' = idx + 1
    /\ pc' = "tv_loop"
    /\ UNCHANGED <<cfgVars, runs, nFiles, ext, dst, sure, tv_show, tv_season,
                   resVars, movieVars, counted, seasonCancelled, resHist>>

\* Path.rmdir succeeds on a directory that exists and is empty: every
\* supported file was moved away and nothing else (`bare`) is in it.
CanRmdir(bare) == srcHere = {} /\ bare

\* shows.py 251-254: input_directory.rmdir(), any exception swallowed.
TvCleanup ==
    /\ pc = "tv_cleanup"
    /\ \E bare \in BOOLEAN :
        fsOp' = IF CanRmdir(bare) THEN {"rmdir"} ELSE {}
    /\ pc' = "tv_done"
    /\ UNCHANGED <<cfgVars, fsVars, loopVars, fileVars, tvVars, resVars,
                   movieVars, runHist, resHist>>

\* process_tv_dir is called again, for another input directory and the same
\* output directory.
TvNewRun ==
    /\ pc \in {"tv_done", "tv_return", "tv_crash"}
    /\ runs < MaxRuns
    /\ runs' = runs + 1
    /\ nFiles' \in 0..MaxFiles
    /\ srcHere' = 1..nFiles'
    /\ idx' = 1
    /\ pc' = "tv_call"
    /\ ForgetFile /\ ForgetResolution /\ ext' = "mkv"
    /\ nConfirmed' = 0 /\ counted' = 0 /\ seasonCancelled' = FALSE
    /\ tv_show' = None /\ tv_season' = None /\ episode_num' = 0
    /\ fsOp' = {}
    /\ UNCHANGED <<cfgVars, outRoot, outDirs, outFiles>>

TvNext ==
    \/ TvCall
    \/ TvLoopEnd
    \/ TvNextFile
    \/ TvSeasonPrompt
    \/ TvSelectEpisode
    \/ TvPlan
    \/ TvConfirm
    \/ TvCleanup
    \/ TvNewRun

\* ------------------------------------------- main and process_movie_file
\* __main__.py 187: the loop over paths is over.
MLoopEnd ==
    /\ pc = "m_loop"
    /\ idx > nFiles
    /\ pc' = "m_cleanup"
    /\ ForgetFile /\ ForgetResolution /\ ext' = "mkv"
    /\ NoFs
    /\ UNCHANGED <<cfgVars, loopVars, tvVars, runHist>>

\* movies.py 101-105: the title find_match is given.
SearchTitle(t) == IF Truthy(t) THEN Str(fix_title(t.text)) ELSE t

\* __main__.py 187-188 and movies.py 101-107: the next file is opened and
\* find_match is called.
MOpen ==
    /\ pc = "m_loop"
    /\ idx <= nFiles
    /\ ForgetFile
    /\ \E e \in Exts : ext' = e
    /\ \E t \in RawTitles : Resolve(SearchTitle(t), filters)
    /\ NoFs
    /\ UNCHANGED <<cfgVars, loopVars, tvVars, runHist>>

\* movies.py 108-110 and __main__.py 189-191: no match, the next file.
MNoMatch ==
    /\ pc = "m_line108"
    /\ match = None
    /\ idx' = idx + 1
    /\ pc' = "m_loop"
    /\ NoFs
    /\ UNCHANGED <<cfgVars, runs, nFiles, fileVars, tvVars, resVars, movieVars,
                   runHist, resHist>>

\* Faulty variant: every file of the folder is counted, whatever its suffix.
DefaultTag_AnySuffix(m, e) ==
    IF MoviePath(m, NoTag, e) \in outFiles
    THEN CD(Cardinality(FilesIn(MoviePath(m, NoTag, e).dir)))
    ELSE NoTag

\* Faulty variant: no default tag is ever derived.
DefaultTag_Never(m, e) == NoTag

\* movies.py 112-121: the default of the tag prompt.
DefaultTag(m, e) ==
    IF MoviePath(m, NoTag, e) \in outFiles
    THEN CD(Cardinality(GlobSuffix(MoviePath(m, NoTag, e).dir, e)))
    ELSE NoTag

MDefaultTag ==
    /\ pc = "m_line108"
    /\ match # None
    /\ default_tag' = DefaultTag(match, ext)
    /\ pc' = "m_tag_prompt"
    /\ NoFs
    /\ UNCHANGED <<cfgVars, loopVars, fileVars, tvVars, resVars, match, tag,
                   runHist, resHist>>

\* movies.py 123-141: the tag prompt (left as offered, emptied or cancelled,
\* or typed over) and the destination.
MTagPrompt ==
    /\ pc = "m_tag_prompt"
    /\ \E answer \in {default_tag, NoTag} \cup {Typed(t) : t \in TypedTags} :
        /\ tag' = answer
        /\ dst' = MoviePath(match, answer, ext)
    /\ pc' = "m_confirm"
    /\ NoFs
    /\ UNCHANGED <<cfgVars, loopVars, ext, approved, sure, tvVars, resVars,
                   match, default_tag, runHist, resHist>>

\* Faulty variant: main goes on to its approved/delete branches for "Skip".
AfterConfirm_SkipReturned(answer) == "m_line193"

\* movies.py 149-150 and __main__.py 189-191: "Skip" makes
\* process_movie_file return None and main continue with the next path.
AfterConfirm(answer) == IF answer = "skip" THEN "m_loop" ELSE "m_line193"

\* movies.py 143-151 and __main__.py 188-191: the three-way confirmation.
MConfirm ==
    /\ pc = "m_confirm"
    /\ \E answer \in {"yes", "skip", "delete"} :
        /\ approved' = answer
        /\ pc' = AfterConfirm(answer)
        /\ idx' = IF pc' = "m_loop" THEN idx + 1 ELSE idx
    /\ nConfirmed' = nConfirmed + 1
    /\ NoFs
    /\ UNCHANGED <<cfgVars, runs, nFiles, ext, dst, sure, tvVars, resVars,
                   movieVars, counted, seasonCancelled, resHist>>

\* __main__.py 193-197: an approved file is moved, or printed on a dry run.
MRename ==
    /\ pc = "m_line193"
    /\ approved = "yes"
    /\ rename_file(TRUE, idx, dst, dry_run)
    /\ idx' = idx + 1
    /\ pc' = "m_loop"
    /\ UNCHANGED <<cfgVars, runs, nFiles, fileVars, tvVars, resVars, movieVars,
                   runHist, resHist>>

\* Faulty variant: the file is unlinked without the second confirmation.
Unlinks_NoSecondConfirm(answer, yes_no) == answer = "delete"

\* __main__.py 198-201: res.src.unlink() under `elif yes_no_dialog(...).run()`.
Unlinks(answer, yes_no) == answer = "delete" /\ yes_no = "yes"

\* __main__.py 198-201: the yes/no dialog for a rejected file.
MAskDelete ==
    /\ pc = "m_line193"
    /\ approved # "yes"
    /\ \E yes_no \in {"yes", "no"} :
        /\ sure' = yes_no
        /\ IF Unlinks(approved, yes_no)
           THEN /\ srcHere' = srcHere \ {idx}
                /\ fsOp' = {"unlink"}
           ELSE /\ srcHere' = srcHere
                /\ fsOp' = {}
    /\ idx' = idx + 1
    /\ pc' = "m_loop"
    /\ UNCHANGED <<cfgVars, outRoot, outDirs, outFiles, runs, nFiles, ext, dst,
                   approved, tvVars, resVars, movieVars, runHist, resHist>>

\* __main__.py 203-207: the empty folders of the output directory are
\* removed.  Nothing catches an exception here: iterdir() of a missing
\* output directory raises, and so does rmdir() of a folder the process may
\* not remove (`denied`).
MCleanup ==
    /\ pc = "m_cleanup"
    /\ \E denied \in BOOLEAN :
        IF outRoot /\ ~(denied /\ \E d \in outDirs : FilesIn(d) = {})
        THEN /\ outDirs' = {d \in outDirs : FilesIn(d) # {}}
             /\ fsOp' = IF outDirs' # outDirs THEN {"rmdir"} ELSE {}
             /\ pc' = "m_done"
        ELSE /\ outDirs' = outDirs
             /\ fsOp' = {}
             /\ pc' = "m_crash"
    /\ UNCHANGED <<cfgVars, outRoot, outFiles, srcHere, loopVars, fileVars,
                   tvVars, resVars, movieVars, runHist, resHist>>

\* main is run again, for other files and the same output directory.
MNewRun ==
    /\ pc \in {"m_done", "m_crash"}
    /\ runs < MaxRuns
    /\ runs' = runs + 1
    /\ nFiles' \in 0..MaxMovies
    /\ srcHere' = 1..nFiles'
    /\ idx' = 1
    /\ pc' = "m_loop"
    /\ ForgetFile /\ ForgetResolution /\ ext' = "mkv"
    /\ nConfirmed' = 0 /\ counted' = 0 /\ seasonCancelled' = FALSE
    /\ fsOp' = {}
    /\ UNCHANGED <<cfgVars, outRoot, outDirs, outFiles, tvVars>>

MovieNext ==
    \/ MLoopEnd
    \/ MOpen
    \/ MNoMatch
    \/ MDefaultTag
    \/ MTagPrompt
    \/ MConfirm
    \/ MRename
    \/ MAskDelete
    \/ MCleanup
    \/ MNewRun

\* ---------------------------------------------------------- specifications
Next == TvNext \/ MovieNext \/ ResolveNext

Spec == Init /\ [][Next]_vars

\* The shows flow alone and the movies flow alone.
ShowsNext == TvNext \/ ResolveNext

InitShowsRun == InitShows /\ InitRun

SpecShows == InitShowsRun /\ [][ShowsNext]_vars

MoviesNext == MovieNext \/ ResolveNext

InitMoviesRun == InitMovies /\ InitRun

SpecMovies == InitMoviesRun /\ [][MoviesNext]_vars

\* ------------------------------------------- one resolution, fair operator
\* The first file of a run, without the bound on the queries of the other
\* specifications: no events are recorded, so a resolution may go round for
\* ever.
InitLive == (InitShows \/ InitMovies) /\ InitLocals /\ history = FALSE

\* The operator picks a candidate or cancels a dialog.
OperatorEnds == RPromptCancel \/ RChoosePick \/ RChooseCancel

\* The provider answers every query; and the operator, shown dialogs again
\* and again, at some point picks a candidate or cancels one.
SpecLive ==
    /\ InitLive /\ [][Next]_vars
    /\ WF_vars(RQueryEmpty \/ RQueryResults)
    /\ SF_vars(OperatorEnds)

\* --------------------------------------------------- fix_title on its own
\* Titles put together from a name, the ", The" suffix and the disc labels,
\* each of them possibly repeated.
TitleTokens ==
    { <<"U", "p">>,
      <<",", " ", "T", "h", "e">>,
      <<" ", "B", "l", "u", "-", "r", "a", "y">>,
      <<" ", "-", " ", "B", "l", "u", "-", "r", "a", "y">> }

RECURSIVE Flatten(_)
Flatten(ts) == IF ts = <<>> THEN <<>> ELSE Head(ts) \o Flatten(Tail(ts))

TitleInputs ==
    UNION {{Flatten(ts) : ts \in [1..n -> TitleTokens]} : n \in 0..MaxTokens}

InitTitles ==
    /\ mode = "movies" /\ dry_run = FALSE /\ start_episode = 0
    /\ filters = DefaultFiltersLang /\ history = TRUE
    /\ outRoot = TRUE /\ outDirs = {} /\ outFiles = {} /\ srcHere = {}
    /\ runs = 1 /\ nFiles = 0 /\ idx = 1
    /\ tv_show = None /\ tv_season = None /\ episode_num = 0
    /\ fsOp = {}
    /\ nConfirmed = 0 /\ counted = 0 /\ seasonCancelled = FALSE
    /\ NoFile
    /\ manual = FALSE /\ filt = DefaultFiltersLang
    /\ typed = FALSE /\ results = {}
    /\ filt0 = DefaultFiltersLang /\ trace = <<>>
    /\ title \in {Str(x) : x \in TitleInputs}
    /\ pc = "fix_title"

\* title = fix_title(title), applied to the raw title and then to its own
\* result.
FixTitle ==
    /\ pc \in {"fix_title", "fix_title_again"}
    /\ title' = Str(fix_title(title.text))
    /\ pc' = IF pc = "fix_title" THEN "fix_title_again" ELSE "fixed"
    /\ UNCHANGED <<cfgVars, fsVars, loopVars, fileVars, tvVars, manual, filt,
                   typed, results, movieVars, fsOp, runHist, resHist>>

SpecTitles == InitTitles /\ [][FixTitle]_vars

\* ------------------------------------------------- the rendered movie path
\* The characters of the strings the model names.
Chars(w) ==
    CASE w = "mkv" -> <<"m", "k", "v">>
      [] w = "mp4" -> <<"m", "p", "4">>
      [] w = "CD" -> <<"C", "D">>
      [] w = "Extended" -> <<"E", "x", "t", "e", "n", "d", "e", "d">>
      [] OTHER -> <<>>

\* s["title"] of the provider's results.
MovieTitle(m) ==
    CASE m = 1049 -> <<"U", "p">>
      [] m = 2 -> <<"R", "a", "n">>
      [] OTHER -> <<"X">>

\* s.get("release_date", "..."): movie 3 comes without the key.
ReleaseDate(m) ==
    CASE m = 1049 -> <<"2", "0", "0", "9", "-", "0", "5", "-", "1", "3">>
      [] m = 2 -> <<"1", "9", "8", "5", "-", "0", "6", "-", "0", "1">>
      [] OTHER -> <<".", ".", ".">>

\* Faulty variant: the whole release date is taken as the year.
Year_WholeDate(d) == d

\* movies.py 71: release_date.split("-")[0].
RECURSIVE Year(_)
Year(d) ==
    IF d = <<>> \/ Head(d) = "-" THEN <<>> ELSE <<Head(d)>> \o Year(Tail(d))

DigitChar(k) == <<"0", "1", "2", "3", "4", "5", "6", "7", "8", "9">>[k + 1]

\* str(n) of a non-negative int, as "{tmdb_id}" and f"CD{len(...)}" give it.
RECURSIVE Digits(_)
Digits(n) ==
    IF n < 10 THEN <<DigitChar(n)>>
    ELSE Digits(n \div 10) \o <<DigitChar(n % 10)>>

\* The text of a tag as the operator leaves it in the prompt.
TagText(t) ==
    IF t.text = "CD" THEN Chars("CD") \o Digits(t.n) ELSE Chars(t.text)

\* movies.py 129-132: `if tag: tag = f" - {tag}" else: tag = ""`.
TagPart(t) ==
    IF TagText(t) # <<>> THEN <<" ", "-", " ">> \o TagText(t) ELSE <<>>

\* "{title} ({year}) [tmdbid-{tmdb_id}]"
MovieStem(ttl, year, tmdb_id) ==
    ttl \o <<" ", "(">> \o year
        \o <<")", " ", "[", "t", "m", "d", "b", "i", "d", "-">>
        \o tmdb_id \o <<"]">>

\* out_format.format(title=, year=, tag=, tmdb_id=, ext=) for the movie
\* template "{title} ({year}) [tmdbid-{tmdb_id}]/{title} ({year})
\* [tmdbid-{tmdb_id}]{tag}.{ext}".
format(ttl, year, tg, tmdb_id, e) ==
    MovieStem(ttl, year, tmdb_id) \o <<"/">> \o MovieStem(ttl, year, tmdb_id)
        \o tg \o <<".">> \o e

\* The path a destination of the movie flow reads as: movies.py 71-76 and
\* 134-141.
RenderMovie(p) ==
    format(MovieTitle(p.dir[1]), Year(ReleaseDate(p.dir[1])),
           TagPart(p.name[1]), Digits(p.dir[1]), Chars(p.name[2]))

\* ----------------------------------------------------------------- claims
ResolvePcs == {"r_prompt", "r_query", "r_choose"}

\* What the resolution returned to its caller.
Result == IF mode = "shows" THEN tv_show ELSE match

\* C1: on a dry run no step makes a filesystem call (no move, no unlink, no
\* mkdir, no rmdir), whatever the operator answers.
C1_DryRunNeverMutates == dry_run => fsOp = {}

\* C2: a source file is unlinked only when the operator chose Delete at the
\* three-way confirmation of that file and then answered yes to the yes/no
\* dialog.
C2_UnlinkNeedsRejectThenYes ==
    "unlink" \in fsOp => (approved = "delete" /\ sure = "yes")

C2_Witness == "unlink" \in fsOp /\ approved = "delete" /\ sure = "yes"

\* C3: with start 1, the file at the confirmation carries the number of
\* files confirmed before it plus one, whatever was answered for them; when
\* every earlier file was confirmed that is its position in path order.
C3_SequentialNumbers ==
    (pc = "tv_confirm" /\ start_episode = 1) =>
        /\ dst.name[1] = nConfirmed + 1
        /\ nConfirmed = idx - 1 => dst.name[1] = idx

\* The third file gets 3 although the first was not approved and the
\* second was.
C3_Witness ==
    /\ pc = "tv_confirm" /\ start_episode = 1 /\ ~dry_run
    /\ idx = 3 /\ srcHere = {1, 3} /\ dst.name[1] = 3

\* C4: with start unset, an approved move never targets a destination that
\* already exists.
C4_NeverOverwrites ==
    [][(pc = "tv_confirm" /\ start_episode = 0 /\ "move" \in fsOp')
        => dst \notin outFiles]_vars

\* C5: with start unset, the first file numbered gets N + 1, N the number of
\* .mkv/.mp4 files in the season folder; the folder is counted once per run;
\* in a first run into an empty output directory the files get 1, 2, 3, ...
C5_FirstNumberFromFolder ==
    /\ [](counted <= 1)
    /\ []((pc = "tv_confirm" /\ start_episode = 0 /\ runs = 1)
            => dst.name[1] = nConfirmed + 1)
    /\ [][(pc = "tv_line208" /\ start_episode = 0 /\ nConfirmed = 0)
            => /\ dst'.name[1] =
                    Cardinality({p \in outFiles :
                        /\ p.dir = <<tv_show, tv_season>>
                        /\ p.name[2] \in {"mkv", "mp4"}}) + 1
               /\ counted' = 1]_vars

\* The first file of a second run gets 3: two files are in the folder.
C5_Witness ==
    /\ pc = "tv_confirm" /\ start_episode = 0 /\ runs = 2
    /\ nConfirmed = 0 /\ dst.name[1] = 3

C7_TypedEmptyReturnsNone ==
    [][(pc = "r_query" /\ typed /\ pc' # "r_choose")
        => (pc' \notin ResolvePcs /\ Result' = None)]_vars

\* The input dialogs this resolution has shown.
PromptsShown ==
    Cardinality(Events("prompt")) + (IF pc = "r_prompt" THEN 1 ELSE 0)

\* The first query was the automatic one (a non-empty title, not manual) and
\* every query so far came back empty.
AutoAllEmpty ==
    /\ Truthy(title)
    /\ Len(trace) >= 1 /\ trace[1] = "empty"
    /\ Events("query") = {}

C9_EveryListFiltered ==
    (mode = "movies" /\ pc = "r_choose" /\ filt0 # "") =>
        \A m \in results : OriginalLanguage(m) \in {"", filt0}

\* The files with the source's suffix in the destination folder.
SameSuffix == {p \in outFiles : p.dir = <<match>> /\ p.name[2] = ext}

\* C10 as claimed: whenever the destination folder holds N >= 1 files with
\* the source's suffix, the tag prompt offers "CD" + N.
C10_DefaultTagFromCount ==
    (pc = "m_tag_prompt" /\ Cardinality(SameSuffix) >= 1) =>
        default_tag = [text |-> "CD", n |-> Cardinality(SameSuffix)]

\* C10 as amended: the prompt offers "CD" + N when the untagged destination
\* exists already, and nothing otherwise.
C10_DefaultTagIfUntaggedExists ==
    pc = "m_tag_prompt" =>
        default_tag =
            IF [dir |-> <<match>>, name |-> <<[text |-> "", n |-> 0], ext>>]
                   \in outFiles
            THEN [text |-> "CD", n |-> Cardinality(SameSuffix)]
            ELSE [text |-> "", n |-> 0]

C10_Witness ==
    pc = "m_tag_prompt" /\ default_tag = [text |-> "CD", n |-> 2]

\* C11: in the movie flow a resolution that returned None, and "Skip" at the
\* confirmation, leave the filesystem alone (the file stays in place) and
\* main goes on to its next path, which it opens.
C11_NullOrSkipLeavesFile ==
    /\ [][(mode = "movies" /\ pc \in ResolvePcs) => UNCHANGED fsVars]_vars
    /\ [][(\/ pc = "m_line108" /\ match = None
           \/ pc = "m_confirm" /\ approved' = "skip")
            => /\ UNCHANGED fsVars /\ fsOp' = {}
               /\ idx \in srcHere'
               /\ pc' = "m_loop" /\ idx' = idx + 1]_vars
    /\ [][(pc = "m_loop" /\ idx <= nFiles)
            => (pc' \in ResolvePcs /\ idx' = idx)]_vars

\* The second file is up after the first was skipped and stayed.
C11_Witness ==
    /\ pc = "m_loop" /\ approved = "skip" /\ ~dry_run
    /\ idx = 2 /\ nFiles = 2 /\ srcHere = {1, 2}

\* C12: a cleanup step never ends the run with an exception, at the end of
\* main and at the end of process_tv_dir.
C12_CleanupNeverFails ==
    [][(pc \in {"m_cleanup", "tv_cleanup"})
        => (pc' \in {"m_done", "tv_done"})]_vars

\* C13: fix_title is idempotent: applied to its own result it returns that
\* result.
C13_FixTitleIdempotent ==
    [][(pc = "fix_title_again") => (title' = title)]_vars

\* C15: a title whose lower-cased form ends with ", the" is mapped to a
\* string that starts with "the " and does not end with ", the".
C15_SuffixBecomesPrefix ==
    [][(pc = "fix_title" /\ EndsWith(Lower(title.text), CommaThe))
        => (/\ StartsWith(title'.text, ThePrefix)
            /\ ~EndsWith(title'.text, CommaThe))]_vars

\* "Up (2009) [tmdbid-1049]"
UpStem ==
    <<"U", "p", " ", "(", "2", "0", "0", "9", ")", " ", "[", "t", "m", "d",
      "b", "i", "d", "-", "1", "0", "4", "9", "]">>

C16_PromptBeforeEveryRequery ==
    /\ [][(pc' = "r_query" /\ NumQueries' >= 1)
            => (pc = "r_prompt" /\ typed')]_vars
    /\ [][(pc = "r_choose" /\ pc' \in ResolvePcs)
            => (pc' = "r_prompt" /\ manual')]_vars
    /\ [][(pc = "r_prompt" /\ pc' # "r_query")
            => (pc' \notin ResolvePcs /\ Result' = None)]_vars
    /\ [][(pc = "r_choose" /\ pc' # "r_prompt")
            => (pc' \notin ResolvePcs /\ Result' \in results \cup {None})]_vars

\* The second query, typed after "none of the above".
C16_Witness ==
    pc = "r_query" /\ typed /\ trace = <<"query", "none_above", "prompt">>

\* C17: in mixed mode a picked episode leads to the confirmation of a
\* destination that carries the picked number.
C17_PickedNumberIsUsed ==
    [][(pc = "tv_line208" /\ start_episode = -1 /\ episode_num' # None)
        => (pc' = "tv_confirm" /\ dst'.name[1] = episode_num')]_vars

\* process_tv_dir has returned or raised.
TvEnded == pc \in {"tv_done", "tv_return", "tv_crash"}

\* C18: within one run identify_tv_show is called only while no show is
\* known, and a show once known stays; in sequential mode a season once
\* chosen stays and the season dialog is not shown again; in mixed mode every
\* file processed with a show gets the season dialog, once.
C18_ShowAndSeasonResolvedOnce ==
    /\ [][(pc = "tv_loop" /\ pc' \in ResolvePcs) => tv_show = None]_vars
    /\ [][(tv_show # None /\ ~TvEnded) => tv_show' = tv_show]_vars
    /\ [][(start_episode # -1 /\ tv_season # None /\ ~TvEnded)
            => (tv_season' = tv_season /\ pc' # "tv_season_prompt")]_vars
    /\ [][(/\ start_episode = -1 /\ pc \in ResolvePcs \cup {"tv_loop"}
           /\ pc' \in {"tv_season_prompt", "tv_line208", "tv_confirm"})
            => pc' = "tv_season_prompt"]_vars
    /\ [][(pc = "tv_season_prompt")
            => (\/ pc' = "tv_line208" /\ idx' = idx
                \/ pc' = "tv_loop" /\ idx' = idx + 1)]_vars

\* The second file of a sequential run is numbered without a season dialog.
C18_Witness ==
    /\ pc = "tv_line208" /\ start_episode = 0 /\ idx = 2 /\ nConfirmed = 1
    /\ tv_show # None /\ tv_season # None /\ ~seasonCancelled

\* C19: in mixed mode a cancelled episode pick (or "None of the above")
\* returns from process_tv_dir at once: nothing is planned, moved or removed
\* by that step, and nothing of this run follows it (no dialog, no move, no
\* rmdir of the input directory), only the next call.
C19_CancelledPickEndsRun ==
    /\ [][(pc = "tv_line208" /\ start_episode = -1 /\ episode_num' = None)
            => (/\ pc' = "tv_return"
                /\ UNCHANGED fsVars /\ fsOp' = {}
                /\ dst' = NoPath)]_vars
    /\ [][(pc = "tv_return")
            => (/\ pc' = "tv_call" /\ runs' = runs + 1
                /\ fsOp' = {}
                /\ UNCHANGED <<outRoot, outDirs, outFiles>>)]_vars

\* The pick for the first of three files was cancelled; all three stay.
C19_Witness ==
    pc = "tv_return" /\ idx = 1 /\ nFiles = 3 /\ srcHere = {1, 2, 3}

DefaultSeries(m, e, k) ==
    {[dir |-> <<m>>, name |-> <<[text |-> "", n |-> 0], e>>] : j \in 1..k}
        \cup {[dir |-> <<m>>, name |-> <<[text |-> "CD", n |-> j], e>>] :
                  j \in 1..(k - 1)}

\* C21: when the files of the source's suffix in the destination folder are
\* exactly those that accepted defaults placed there, and the operator
\* leaves the offered default again, the destination does not exist yet: it
\* carries no tag for the first file and " - CD<k-1>" for the k-th.
C21_DefaultsNeverOverwrite ==
    (/\ pc = "m_confirm" /\ tag = default_tag
     /\ SameSuffix = DefaultSeries(match, ext, Cardinality(SameSuffix)))
        => LET k == Cardinality(SameSuffix) + 1
           IN  /\ dst \notin outFiles
               /\ dst \in DefaultSeries(match, ext, k)
               /\ TagPart(tag) =
                    IF k = 1 THEN <<>>
                    ELSE <<" ", "-", " ", "C", "D">> \o Digits(k - 1)

\* The third disc of a movie: two are in the folder, CD2 was offered and
\* left as it was.
C21_Witness ==
    /\ pc = "m_confirm" /\ tag = default_tag
    /\ SameSuffix = DefaultSeries(match, ext, 2)
    /\ tag = [text |-> "CD", n |-> 2]

====
